---- MODULE Spec2Model ----
(***************************************************************************)
(* State-machine model of src/stt_bot.py: the Telegram voice / video-note  *)
(* transcription bot.  One request is one call of handle_media(update).    *)
(* An action is the code that runs between two suspension points (await,   *)
(* or a step of the worker thread started by asyncio.to_thread).           *)
(*                                                                         *)
(* Texts are sequences of tokens: a fixed string literal of the source is  *)
(* one token, a transcript or an error detail is a sequence of character   *)
(* tokens, and an f-string is the concatenation of its parts.              *)
(***************************************************************************)
EXTENDS Naturals, Sequences, FiniteSets, TLC

\* ---------------------------------------------------------------- bounds
MaxRequests == 2      \* inbound events received in one run
MaxClock == 1         \* int(time.time()) ranges over 0..MaxClock
MaxLen == 1           \* longest transcript the provider stub returns

\* Python's None, for a text, a path, a parse mode
NoneText == <<"None">>
NonePath == <<>>
NoMode == "None"

\* ------------------------------------------------------------- constants
\* stt_bot.py:26
TEMP_MEDIA_DIR == "temp_media"

\* stt_bot.py:103  "🎙️ Получил, начинаю расшифровку..."
AckText == <<"Poluchil, nachinayu rasshifrovku...">>
\* stt_bot.py:133  "⏳ Конвертирую аудио..."
ConvertingText == <<"Konvertiruyu audio...">>
\* stt_bot.py:144  "❌ Произошла ошибка при обработке файла."
FailText == <<"Proizoshla oshibka pri obrabotke fayla.">>
\* stt_bot.py:152  "🧠 Распознаю речь..."
RecognizingText == <<"Raspoznayu rech...">>
\* stt_bot.py:160  "Не удалось получить результат распознавания."
FallbackText == <<"Ne udalos poluchit rezultat raspoznavaniya.">>
\* stt_bot.py:45   "[Ошибка: Внутренняя ошибка, файл не найден]"
FileNotFoundText == <<"[Oshibka: Vnutrennyaya oshibka, fayl ne nayden]">>
\* stt_bot.py:64   "[Речь не распознана]"
NoSpeechText == <<"[Rech ne raspoznana]">>
\* stt_bot.py:70   "[Ошибка обработки аудио]"
AudioErrorText == <<"[Oshibka obrabotki audio]">>

\* ---------------------------------------------------------------- inputs
\* update.effective_user.id of the events that are delivered
Users == {1, 12}
\* what an update carries: no message at all, a message that is neither a
\* voice nor a video note, a voice, a video note
Kinds == {"no_message", "other", "voice", "video_note"}
Updates == [kind : Kinds, user : Users]

\* str(e) of an exception raised by a collaborator
Details == {<<"e1">>, <<"e2">>}
DetailTokens == {"e1", "e2"}

\* the strings recognizer.recognize_google can return
Alphabet == {"a"}
Transcripts == UNION {[1..n -> Alphabet] : n \in 0..MaxLen}

\* ------------------------------------------------------- pure functions
DigitChars == <<"0", "1", "2", "3", "4", "5", "6", "7", "8", "9">>

\* str(n) of a non-negative integer, as the f-strings of lines 115 and 123
\* format user_id and int(time.time())
RECURSIVE Digits(_)
Digits(n) ==
  IF n < 10 THEN <<DigitChars[n + 1]>>
  ELSE Digits(n \div 10) \o <<DigitChars[(n % 10) + 1]>>

base_name_NoUser(prefix, user_id, now) == <<prefix, "_">> \o Digits(now)

\* stt_bot.py:115,123  base_name = f"{prefix}_{user_id}_{int(time.time())}"
base_name(prefix, user_id, now) ==
  <<prefix, "_">> \o Digits(user_id) \o <<"_">> \o Digits(now)

\* stt_bot.py:116-117,124-125  os.path.join(TEMP_MEDIA_DIR, f"{base_name}{ext}")
join_path(base, ext) == <<TEMP_MEDIA_DIR, "/">> \o base \o <<ext>>

Prefix(kind) == IF kind = "voice" THEN "voice" ELSE "vnote"
SourceExt(kind) == IF kind = "voice" THEN ".oga" ELSE ".mp4"

Accepted_AnyMessage(u) == u.kind # "no_message"

\* stt_bot.py:96-99  is_voice or is_video_note
Accepted(u) == u.kind = "voice" \/ u.kind = "video_note"

Truthy_NotNone(t) == t # NoneText

\* Python truthiness of an Optional[str] (stt_bot.py:156)
Truthy(t) == t # NoneText /\ t # <<>>

\* stt_bot.py:67  f"[Ошибка сервиса распознавания: {e}]"
ServiceErrorText(detail) ==
  <<"[Oshibka servisa raspoznavaniya: ">> \o detail \o <<"]">>

OutcomeText_Leaky(res) ==
  CASE res.kind = "transcript"        -> res.val
    [] res.kind = "UnknownValueError" -> NoSpeechText
    [] res.kind = "RequestError"      -> ServiceErrorText(res.val)
    [] OTHER                          -> AudioErrorText \o res.val

\* stt_bot.py:59-70  the value transcribe_voice binds to text for what
\* recognize_sync returned or raised
OutcomeText(res) ==
  CASE res.kind = "transcript"        -> res.val
    [] res.kind = "UnknownValueError" -> NoSpeechText
    [] res.kind = "RequestError"      -> ServiceErrorText(res.val)
    [] OTHER                          -> AudioErrorText

ResultText_Verbatim(t) == t

\* stt_bot.py:157  f"\n\n{transcribed_text}"
ResultText(t) == <<"\n", "\n">> \o t

\* stt_bot.py:142-144  the text of the failure edit: the literal, whatever
\* exception e was caught
FailureText_WithDetail(e) == FailText \o e.detail
FailureText(e) == FailText

\* stt_bot.py:156-160  the text of the last edit
FinalText(t) == IF Truthy(t) THEN ResultText(t) ELSE FallbackText

\* stt_bot.py:157 passes parse_mode='Markdown'; line 160 passes none
FinalParseMode(t) == IF Truthy(t) THEN "Markdown" ELSE NoMode

\* ----------------------------------------------------------------- state
\* The Application of line 174 is built without concurrent_updates and the
\* handler of line 178 is registered with the default block=True, so the
\* application awaits the handler call of one update before it takes the
\* next update off its queue: at most one call of handle_media is in
\* progress.  The locals below are those of that call (or of the last call
\* that ended); a new call starts with fresh locals.
VARIABLES
  clock,                \* int(time.time())
  files,                \* the paths that exist on storage
  dir_exists,           \* TEMP_MEDIA_DIR exists
  received,             \* number of events received so far
  queued,               \* number of updates waiting on the update queue
  pc,                   \* where the call of handle_media is
  update,               \* the argument of the call
  original_media_path,  \* local of handle_media
  temp_file_path,       \* local of handle_media
  caught,               \* the exception bound to e at line 142
  propagated,           \* the stage whose exception left handle_media
  recognized,           \* what recognize_sync returned or raised
  transcribed_text,     \* local of handle_media (line 153)
  trace,                \* the collaborator calls the call has completed
  allocated             \* the artifact keys built so far, one entry per
                        \* call, with the number of updates then waiting

vars == <<clock, files, dir_exists, received, queued, pc, update,
          original_media_path, temp_file_path, caught, propagated,
          recognized, transcribed_text, trace, allocated>>

\* one completed collaborator call
Ev(name, ok, text, mode) ==
  [ev |-> name, ok |-> ok, text |-> text, parse_mode |-> mode]

Exc(stage, detail) == [stage |-> stage, detail |-> detail]

\* no event yet, no exception, no recognizer result yet
NoUpdate == [kind |-> "None", user |-> 0]
NoExc == Exc("None", <<>>)
NoResult == [kind |-> "None", val |-> <<>>]

\* pc values of a call of handle_media that has started and not ended
Running ==
  {"reply_text", "send_chat_action", "get_file", "download",
   "edit_converting", "from_file", "export", "edit_failure",
   "edit_recognizing", "recognize_sync", "transcribe_return", "edit_result"}

Terminated == pc \in {"returned", "raised"}

Init ==
  /\ clock = 0
  /\ files = {}
  /\ dir_exists = FALSE
  /\ received = 0
  /\ queued = 0
  /\ pc = "idle"
  /\ update = NoUpdate
  /\ original_media_path = NonePath
  /\ temp_file_path = NonePath
  /\ caught = NoExc
  /\ propagated = "None"
  /\ recognized = NoResult
  /\ transcribed_text = NoneText
  /\ trace = <<>>
  /\ allocated = <<>>

\* ----------------------------------------------------------- environment
\* the wall clock advances
Tick ==
  /\ clock < MaxClock
  /\ clock' = clock + 1
  /\ UNCHANGED <<files, dir_exists, received, queued, pc, update,
                 original_media_path, temp_file_path, caught, propagated,
                 recognized, transcribed_text, trace, allocated>>

\* a file of the scratch directory is deleted out of band
ExternalDelete ==
  /\ \E p \in files : files' = files \ {p}
  /\ UNCHANGED <<clock, dir_exists, received, queued, pc, update,
                 original_media_path, temp_file_path, caught, propagated,
                 recognized, transcribed_text, trace, allocated>>

\* ------------------------------------------------------------ dispatcher
\* stt_bot.py:181  run_polling: the updater fetches the next event and puts
\* it on the application's update queue, whatever the handler is doing
Receive ==
  /\ received < MaxRequests
  /\ received' = received + 1
  /\ queued' = queued + 1
  /\ UNCHANGED <<clock, files, dir_exists, pc, update, original_media_path,
                 temp_file_path, caught, propagated, recognized,
                 transcribed_text, trace, allocated>>

MayDispatch_StopsAfterRaise ==
  /\ queued > 0
  /\ pc \notin Running
  /\ pc # "raised"

\* stt_bot.py:174-178  the application takes the next update off the queue
\* only when no handler call is in progress; an exception that left the
\* previous call was logged by the application and does not stop it
MayDispatch ==
  /\ queued > 0
  /\ pc \notin Running

\* --------------------------------------------------------- handle_media
ReleaseSource_Never(fs) == fs

\* the finally clause, lines 146-149
ReleaseSource(fs) ==
  IF original_media_path # NonePath /\ original_media_path \in fs
  THEN fs \ {original_media_path}
  ELSE fs

\* stt_bot.py:85-103  the next update is taken and handle_media runs up to
\* its first await: it returns for an update without message and for a
\* message that is neither a voice nor a video note
handle_media ==
  /\ MayDispatch
  /\ queued' = queued - 1
  /\ \E u \in Updates :
       /\ update' = u
       /\ pc' = IF u.kind = "no_message" THEN "returned"
                ELSE IF ~Accepted(u) THEN "returned"
                ELSE "reply_text"
  /\ original_media_path' = NonePath
  /\ temp_file_path' = NonePath
  /\ caught' = NoExc
  /\ propagated' = "None"
  /\ recognized' = NoResult
  /\ transcribed_text' = NoneText
  /\ trace' = <<>>
  /\ UNCHANGED <<clock, files, dir_exists, received, allocated>>

ReplyText_DirOnFailure ==
  /\ pc = "reply_text"
  /\ \/ /\ trace' = Append(trace, Ev("reply_text", TRUE, AckText, NoMode))
        /\ pc' = "send_chat_action"
        /\ UNCHANGED propagated
     \/ /\ trace' = Append(trace, Ev("reply_text", FALSE, AckText, NoMode))
        /\ propagated' = "reply_text"
        /\ pc' = "raised"
  /\ dir_exists' = TRUE
  /\ UNCHANGED <<clock, files, received, queued, update, original_media_path,
                 temp_file_path, caught, recognized, transcribed_text,
                 allocated>>

\* stt_bot.py:103-113,121  reply_text returns or raises; then makedirs and
\* the call of send_chat_action
ReplyText ==
  /\ pc = "reply_text"
  /\ \/ /\ trace' = Append(trace, Ev("reply_text", TRUE, AckText, NoMode))
        /\ dir_exists' = TRUE
        /\ pc' = "send_chat_action"
        /\ UNCHANGED propagated
     \/ /\ trace' = Append(trace, Ev("reply_text", FALSE, AckText, NoMode))
        /\ propagated' = "reply_text"
        /\ pc' = "raised"
        /\ UNCHANGED dir_exists
  /\ UNCHANGED <<clock, files, received, queued, update, original_media_path,
                 temp_file_path, caught, recognized, transcribed_text,
                 allocated>>

Except_RetryDownload(stage, d) ==
  /\ caught' = Exc(stage, d)
  /\ pc' = IF stage = "download" THEN "download" ELSE "edit_failure"

\* stt_bot.py:142-144  a fault inside the try block: e is bound and the
\* failure text is about to be sent
Except(stage, d) ==
  /\ caught' = Exc(stage, d)
  /\ pc' = "edit_failure"

\* stt_bot.py:113-114,121-122  send_chat_action returns or raises
SendChatAction ==
  /\ pc = "send_chat_action"
  /\ \/ /\ trace' = Append(trace, Ev("send_chat_action", TRUE, <<>>, NoMode))
        /\ pc' = "get_file"
        /\ UNCHANGED caught
     \/ \E d \in Details :
          /\ trace' = Append(trace, Ev("send_chat_action", FALSE, <<>>, NoMode))
          /\ Except("send_chat_action", d)
  /\ UNCHANGED <<clock, files, dir_exists, received, queued, update,
                 original_media_path, temp_file_path, propagated, recognized,
                 transcribed_text, allocated>>

\* stt_bot.py:114-129,122-126  get_file returns or raises; then the two
\* paths are built from the user id and the current second
GetFile ==
  /\ pc = "get_file"
  /\ \/ /\ LET base == base_name(Prefix(update.kind), update.user, clock)
               src == join_path(base, SourceExt(update.kind))
               wav == join_path(base, ".wav")
           IN /\ original_media_path' = src
              /\ temp_file_path' = wav
              /\ allocated' = Append(allocated,
                   [user |-> update.user, kind |-> update.kind, now |-> clock,
                    waiting |-> queued, source |-> src, canonical |-> wav])
        /\ trace' = Append(trace, Ev("get_file", TRUE, <<>>, NoMode))
        /\ pc' = "download"
        /\ UNCHANGED caught
     \/ \E d \in Details :
          /\ trace' = Append(trace, Ev("get_file", FALSE, <<>>, NoMode))
          /\ Except("get_file", d)
          /\ UNCHANGED <<original_media_path, temp_file_path, allocated>>
  /\ UNCHANGED <<clock, files, dir_exists, received, queued, update,
                 propagated, recognized, transcribed_text>>

\* stt_bot.py:129-133  download_to_drive writes the source artifact, or
\* raises having written part of it or nothing
Download ==
  /\ pc = "download"
  /\ \/ /\ files' = files \cup {original_media_path}
        /\ trace' = Append(trace, Ev("download", TRUE, <<>>, NoMode))
        /\ pc' = "edit_converting"
        /\ UNCHANGED caught
     \/ \E d \in Details :
          /\ \/ files' = files
             \/ files' = files \cup {original_media_path}
          /\ trace' = Append(trace, Ev("download", FALSE, <<>>, NoMode))
          /\ Except("download", d)
  /\ UNCHANGED <<clock, dir_exists, received, queued, update,
                 original_media_path, temp_file_path, propagated, recognized,
                 transcribed_text, allocated>>

EditConverting_Swallow ==
  /\ pc = "edit_converting"
  /\ \E ok \in BOOLEAN :
       trace' = Append(trace,
                  Ev("edit_converting", ok, ConvertingText, NoMode))
  /\ pc' = "from_file"
  /\ UNCHANGED <<clock, files, dir_exists, received, queued, update,
                 original_media_path, temp_file_path, caught, propagated,
                 recognized, transcribed_text, allocated>>

\* stt_bot.py:133-139  the 'converting' edit returns or raises; then
\* convert_sync is handed to a worker thread
EditConverting ==
  /\ pc = "edit_converting"
  /\ \/ /\ trace' = Append(trace,
                       Ev("edit_converting", TRUE, ConvertingText, NoMode))
        /\ pc' = "from_file"
        /\ UNCHANGED caught
     \/ \E d \in Details :
          /\ trace' = Append(trace,
                         Ev("edit_converting", FALSE, ConvertingText, NoMode))
          /\ Except("edit_converting", d)
  /\ UNCHANGED <<clock, files, dir_exists, received, queued, update,
                 original_media_path, temp_file_path, propagated, recognized,
                 transcribed_text, allocated>>

FromFile_WaitsForFile ==
  /\ pc = "from_file"
  /\ original_media_path \in files
  /\ \/ /\ pc' = "export"
        /\ UNCHANGED <<caught, trace>>
     \/ \E d \in Details :
          /\ trace' = Append(trace, Ev("convert_sync", FALSE, <<>>, NoMode))
          /\ Except("convert_sync", d)
  /\ UNCHANGED <<clock, files, dir_exists, received, queued, update,
                 original_media_path, temp_file_path, propagated, recognized,
                 transcribed_text, allocated>>

\* stt_bot.py:136  convert_sync, in the worker thread: AudioSegment.from_file
\* decodes the source artifact, or raises (always when the file is gone)
FromFile ==
  /\ pc = "from_file"
  /\ \/ /\ original_media_path \in files
        /\ pc' = "export"
        /\ UNCHANGED <<caught, trace>>
     \/ \E d \in Details :
          /\ trace' = Append(trace, Ev("convert_sync", FALSE, <<>>, NoMode))
          /\ Except("convert_sync", d)
  /\ UNCHANGED <<clock, files, dir_exists, received, queued, update,
                 original_media_path, temp_file_path, propagated, recognized,
                 transcribed_text, allocated>>

\* stt_bot.py:137-152  audio.export writes the canonical artifact, or raises
\* having written part of it or nothing.  When it returned, the finally
\* clause removes the source artifact and the 'recognizing' edit is called
Export ==
  /\ pc = "export"
  /\ \/ /\ files' = ReleaseSource(files \cup {temp_file_path})
        /\ trace' = Append(trace, Ev("convert_sync", TRUE, <<>>, NoMode))
        /\ pc' = "edit_recognizing"
        /\ UNCHANGED caught
     \/ \E d \in Details :
          /\ \/ files' = files
             \/ files' = files \cup {temp_file_path}
          /\ trace' = Append(trace, Ev("convert_sync", FALSE, <<>>, NoMode))
          /\ Except("convert_sync", d)
  /\ UNCHANGED <<clock, dir_exists, received, queued, update,
                 original_media_path, temp_file_path, propagated, recognized,
                 transcribed_text, allocated>>

\* stt_bot.py:144-149  the failure edit returns, and handle_media returns,
\* or it raises; either way the finally clause removes the source artifact
EditFailure ==
  /\ pc = "edit_failure"
  /\ \/ /\ trace' = Append(trace,
                       Ev("edit_failure", TRUE, FailureText(caught), NoMode))
        /\ pc' = "returned"
        /\ UNCHANGED propagated
     \/ /\ trace' = Append(trace,
                       Ev("edit_failure", FALSE, FailureText(caught), NoMode))
        /\ propagated' = "edit_failure"
        /\ pc' = "raised"
  /\ files' = ReleaseSource(files)
  /\ UNCHANGED <<clock, dir_exists, received, queued, update,
                 original_media_path, temp_file_path, caught, recognized,
                 transcribed_text, allocated>>

EditRecognizing_NoCheck ==
  /\ pc = "edit_recognizing"
  /\ \/ /\ pc' = "recognize_sync"
        /\ trace' = trace \o
             <<Ev("edit_recognizing", TRUE, RecognizingText, NoMode),
               Ev("transcribe_voice", TRUE, <<>>, NoMode)>>
        /\ UNCHANGED propagated
     \/ /\ trace' = Append(trace,
                       Ev("edit_recognizing", FALSE, RecognizingText, NoMode))
        /\ propagated' = "edit_recognizing"
        /\ pc' = "raised"
  /\ UNCHANGED <<clock, files, dir_exists, received, queued, update,
                 original_media_path, temp_file_path, caught, recognized,
                 transcribed_text, allocated>>

\* stt_bot.py:152-153,43-59  the 'recognizing' edit returns or raises; then
\* transcribe_voice is called: it returns at once when the canonical
\* artifact is missing, else hands recognize_sync to a worker thread
EditRecognizing ==
  /\ pc = "edit_recognizing"
  /\ \/ /\ IF temp_file_path \notin files
           THEN /\ transcribed_text' = FileNotFoundText
                /\ pc' = "edit_result"
           ELSE /\ pc' = "recognize_sync"
                /\ UNCHANGED transcribed_text
        /\ trace' = trace \o
             <<Ev("edit_recognizing", TRUE, RecognizingText, NoMode),
               Ev("transcribe_voice", TRUE, <<>>, NoMode)>>
        /\ UNCHANGED propagated
     \/ /\ trace' = Append(trace,
                       Ev("edit_recognizing", FALSE, RecognizingText, NoMode))
        /\ propagated' = "edit_recognizing"
        /\ pc' = "raised"
        /\ UNCHANGED transcribed_text
  /\ UNCHANGED <<clock, files, dir_exists, received, queued, update,
                 original_media_path, temp_file_path, caught, recognized,
                 allocated>>

\* what the provider call of line 57 can do
ProviderResults ==
  [kind : {"transcript"}, val : Transcripts]
    \cup [kind : {"UnknownValueError"}, val : {<<>>}]
    \cup [kind : {"RequestError", "Exception"}, val : Details]

\* stt_bot.py:53-57  recognize_sync, in the worker thread: sr.AudioFile and
\* record read the canonical artifact (and raise when it is gone or not
\* readable), then recognize_google calls the provider
recognize_sync ==
  /\ pc = "recognize_sync"
  /\ \/ \E d \in Details :
          /\ recognized' = [kind |-> "Exception", val |-> d]
          /\ UNCHANGED trace
     \/ /\ temp_file_path \in files
        /\ \E res \in ProviderResults :
             /\ recognized' = res
             /\ trace' = Append(trace,
                  Ev("recognize_google", res.kind = "transcript", <<>>, NoMode))
  /\ pc' = "transcribe_return"
  /\ UNCHANGED <<clock, files, dir_exists, received, queued, update,
                 original_media_path, temp_file_path, caught, propagated,
                 transcribed_text, allocated>>

transcribe_voice_RemoveAfterTranscriptOnly ==
  /\ pc = "transcribe_return"
  /\ transcribed_text' = OutcomeText(recognized)
  /\ IF recognized.kind = "transcript"
     THEN /\ files' = files \ {temp_file_path}
          /\ trace' = Append(trace,
               Ev("os.remove", temp_file_path \in files, <<>>, NoMode))
     ELSE UNCHANGED <<files, trace>>
  /\ pc' = "edit_result"
  /\ UNCHANGED <<clock, dir_exists, received, queued, update,
                 original_media_path, temp_file_path, caught, propagated,
                 recognized, allocated>>

transcribe_voice_RaiseOnMissing ==
  /\ pc = "transcribe_return"
  /\ transcribed_text' = OutcomeText(recognized)
  /\ files' = files \ {temp_file_path}
  /\ trace' = Append(trace,
       Ev("os.remove", temp_file_path \in files, <<>>, NoMode))
  /\ IF temp_file_path \in files
     THEN pc' = "edit_result" /\ UNCHANGED propagated
     ELSE pc' = "raised" /\ propagated' = "os.remove"
  /\ UNCHANGED <<clock, dir_exists, received, queued, update,
                 original_media_path, temp_file_path, caught, recognized,
                 allocated>>

\* stt_bot.py:59-79,153-160  back in transcribe_voice: the except clauses
\* bind text, the finally clause calls os.remove on the canonical artifact
\* (its OSError, raised when the file is gone, is logged only), text is
\* returned and the last edit is called
transcribe_voice ==
  /\ pc = "transcribe_return"
  /\ transcribed_text' = OutcomeText(recognized)
  /\ files' = files \ {temp_file_path}
  /\ trace' = Append(trace,
       Ev("os.remove", temp_file_path \in files, <<>>, NoMode))
  /\ pc' = "edit_result"
  /\ UNCHANGED <<clock, dir_exists, received, queued, update,
                 original_media_path, temp_file_path, caught, propagated,
                 recognized, allocated>>

\* stt_bot.py:156-160  the last edit returns or raises
EditResult ==
  /\ pc = "edit_result"
  /\ LET text == FinalText(transcribed_text)
         mode == FinalParseMode(transcribed_text)
     IN \/ /\ trace' = Append(trace, Ev("edit_result", TRUE, text, mode))
           /\ pc' = "returned"
           /\ UNCHANGED propagated
        \/ /\ trace' = Append(trace, Ev("edit_result", FALSE, text, mode))
           /\ propagated' = "edit_result"
           /\ pc' = "raised"
  /\ UNCHANGED <<clock, files, dir_exists, received, queued, update,
                 original_media_path, temp_file_path, caught, recognized,
                 transcribed_text, allocated>>

\* ---------------------------------------------------------- specification
Next ==
  \/ Tick
  \/ ExternalDelete
  \/ Receive
  \/ handle_media
  \/ ReplyText
  \/ SendChatAction
  \/ GetFile
  \/ Download
  \/ EditConverting
  \/ FromFile
  \/ Export
  \/ EditFailure
  \/ EditRecognizing
  \/ recognize_sync
  \/ transcribe_voice
  \/ EditResult

Spec == Init /\ [][Next]_vars

\* stt_bot.py:103-160  the steps of a started call of handle_media
Step ==
  \/ ReplyText
  \/ SendChatAction
  \/ GetFile
  \/ Download
  \/ EditConverting
  \/ FromFile
  \/ Export
  \/ EditFailure
  \/ EditRecognizing
  \/ recognize_sync
  \/ transcribe_voice
  \/ EditResult

\* stt_bot.py:181  the event loop of run_polling resumes the awaiting call
\* whenever the call it awaits has returned or raised, and every awaited
\* call (status call, download, worker thread) does return or raise
FairSpec == Spec /\ WF_vars(Step)

\* ------------------------------------------------ vocabulary of the claims
\* the update of the call is a voice or a video note
AcceptedKind == update.kind \in {"voice", "video_note"}

\* positions of the trace that hold a call of one of the names
Calls(names) == {i \in DOMAIN trace : trace[i].ev \in names}
Completed(name) == \E i \in DOMAIN trace : trace[i].ev = name /\ trace[i].ok
Faulted(name) == \E i \in DOMAIN trace : trace[i].ev = name /\ ~trace[i].ok

\* the terminal status reports: the failure edit and the result edit
TerminalReports == Calls({"edit_failure", "edit_result"})

\* the calls that send or edit the status message
StatusCalls ==
  {"reply_text", "edit_converting", "edit_recognizing", "edit_failure",
   "edit_result"}
NoStatusCallFaulted ==
  \A i \in DOMAIN trace : trace[i].ev \in StatusCalls => trace[i].ok

\* the last completed call of the trace
Last == trace[Len(trace)]

\* a token of an exception detail occurs in the text
ShowsDetail(text) == \E i \in DOMAIN text : text[i] \in DetailTokens

\* ------------------------------------------------------------------- C1
\* C1: when handle_media has ended for a voice or video-note update, it has
\* made exactly one terminal status report (failure edit or result edit),
\* whatever the collaborators did.
C1_ExactlyOneTerminalReport ==
  (Terminated /\ AcceptedKind) => Cardinality(TerminalReports) = 1

\* ------------------------------------------------------------------- C2
\* C2: when handle_media has ended for a voice or video-note update, neither
\* its source artifact nor its canonical artifact exists on storage (here
\* for the calls all of whose status calls succeeded).
C2_NoArtifactAfterTermination ==
  (Terminated /\ AcceptedKind /\ NoStatusCallFaulted) =>
    /\ original_media_path \notin files
    /\ temp_file_path \notin files

\* ------------------------------------------------------------------- C3
\* C3: the call for an update that has no message, or whose message is
\* neither a voice nor a video note, returns at once: it completes no
\* collaborator call (no reply, edit, chat action, download), builds no
\* artifact key, and leaves storage and the scratch directory as they were.
C3_RejectedState ==
  update.kind \in {"no_message", "other"} =>
    /\ pc = "returned"
    /\ trace = <<>>
    /\ original_media_path = NonePath
    /\ temp_file_path = NonePath

C3_RejectedStep ==
  (queued' < queued /\ update'.kind \in {"no_message", "other"}) =>
    /\ files' = files
    /\ dir_exists' = dir_exists
    /\ allocated' = allocated

C3_RejectedIsNoOp == []C3_RejectedState /\ [][C3_RejectedStep]_vars

\* a rejected call has returned while a file of an earlier call is on storage
C3_Witness ==
  /\ pc = "returned"
  /\ update.kind = "other"
  /\ files # {}

\* ------------------------------------------------------------------- C4
AllSucceeded ==
  /\ pc = "returned"
  /\ recognized.kind = "transcript"
  /\ Last.ev = "edit_result"

\* C4 as stated: when download, transcoding and recognition all succeed, the
\* text of the terminal status report is the transcript, verbatim (here for
\* the non-empty transcripts only, the case the claim cannot be wrong about
\* for another reason).
C4_VerbatimTranscript ==
  (AllSucceeded /\ recognized.val # <<>>) => Last.text = recognized.val

\* C4 as amended: the text of the terminal status report is two newlines
\* followed by the transcript, sent with parse mode Markdown, for every
\* non-empty transcript; for the empty transcript it is the fallback text.
C4_PrefixedTranscript ==
  AllSucceeded =>
    IF recognized.val = <<>>
    THEN Last.text = <<"Ne udalos poluchit rezultat raspoznavaniya.">>
    ELSE /\ Last.text = <<"\n", "\n">> \o recognized.val
         /\ Last.parse_mode = "Markdown"

C4_Witness ==
  /\ AllSucceeded
  /\ recognized.val = <<"a">>
  /\ Last.ok

\* ------------------------------------------------------------------- C5
\* the text the claim assigns to each behaviour of the provider
C5_Expected ==
  CASE recognized.kind = "transcript"        -> recognized.val
    [] recognized.kind = "UnknownValueError" -> <<"[Rech ne raspoznana]">>
    [] recognized.kind = "RequestError"      ->
         <<"[Oshibka servisa raspoznavaniya: ">> \o recognized.val \o <<"]">>
    [] recognized.kind = "Exception"         -> <<"[Oshibka obrabotki audio]">>

\* C5: once recognize_sync has returned or raised, transcribe_voice returns
\* the one text the claim assigns to that behaviour (the transcript, the
\* no-speech marker, the service-error marker with the detail, the generic
\* marker without it), and the text of the result edit is a function of that
\* returned text alone.
C5_OutcomeMapping ==
  /\ (recognized # NoResult /\ pc \in {"edit_result", "returned", "raised"}) =>
       /\ transcribed_text = C5_Expected
       /\ recognized.kind = "Exception" => ~ShowsDetail(transcribed_text)
       /\ recognized.kind = "RequestError" => ShowsDetail(transcribed_text)
  /\ \A i \in Calls({"edit_result"}) :
       trace[i].text =
         IF transcribed_text = <<>>
         THEN <<"Ne udalos poluchit rezultat raspoznavaniya.">>
         ELSE <<"\n", "\n">> \o transcribed_text

C5_Witness ==
  /\ pc = "returned"
  /\ recognized.kind = "RequestError"
  /\ Last.ev = "edit_result"

\* ------------------------------------------------------------------- C6
\* C6: once the download or the transcoding has raised, transcribe_voice is
\* not called, the 'recognizing' edit is not made, the provider is not
\* called, every terminal report carries the fixed failure text, and no
\* text sent shows the fault detail.
C6_FaultGoesToFailed ==
  caught.stage \in {"download", "convert_sync"} =>
    /\ pc \in {"edit_failure", "returned", "raised"}
    /\ Calls({"edit_recognizing", "transcribe_voice", "recognize_google",
              "edit_result"}) = {}
    /\ recognized = NoResult
    /\ \A i \in TerminalReports :
         trace[i].text = <<"Proizoshla oshibka pri obrabotke fayla.">>
    /\ \A i \in DOMAIN trace : ~ShowsDetail(trace[i].text)
    /\ pc = "returned" => (Last.ev = "edit_failure" /\ Last.ok)

C6_Witness ==
  /\ pc = "returned"
  /\ caught.stage = "convert_sync"
  /\ Completed("download")
  /\ Last.ev = "edit_failure"

\* ------------------------------------------------------------------- C7
\* C7: two requests of different users never get the same source key nor
\* the same canonical key, also when their keys are built in the same second
\* for the same media kind.
C7_KeysDifferAcrossUsers ==
  \A i, j \in DOMAIN allocated :
    (i # j /\ allocated[i].user # allocated[j].user) =>
      /\ allocated[i].source # allocated[j].source
      /\ allocated[i].canonical # allocated[j].canonical

\* two requests of different users, the second already received while the
\* first was being handled, got their keys in the same second for the same
\* media kind
C7_Witness ==
  /\ Len(allocated) = 2
  /\ allocated[1].user # allocated[2].user
  /\ allocated[1].kind = allocated[2].kind
  /\ allocated[1].now = allocated[2].now
  /\ allocated[1].waiting > 0

\* ------------------------------------------------------------------- C8
\* C8: any two distinct requests get distinct source keys and distinct
\* canonical keys, also two requests of one user within one second.
C8_KeysUniquePerRequest ==
  \A i, j \in DOMAIN allocated :
    i # j =>
      /\ allocated[i].source # allocated[j].source
      /\ allocated[i].canonical # allocated[j].canonical

\* ------------------------------------------------------------------- C9
\* C9: a status call that raises is swallowed: no exception leaves
\* handle_media, and the stages after the failed report still run (after a
\* failed 'converting' edit the transcoding is still attempted).
C9_ReportFailureSwallowed ==
  /\ pc # "raised"
  /\ (Terminated /\ Faulted("edit_converting")) => Calls({"convert_sync"}) # {}

\* ------------------------------------------------------------------ C10
\* C10: while convert_sync or recognize_sync of one request runs in its
\* worker thread, the handler call for a waiting update can start.
C10_DispatcherNotBlocked ==
  (pc \in {"from_file", "export", "recognize_sync"} /\ queued > 0) =>
    ENABLED handle_media

Stages == {"download", "convert_sync", "transcribe_voice", "recognize_google"}

\* C12: within one request the download, the transcoding and the provider
\* call are each made at most once, and a stage that raised is the last
\* stage of the request.
C12_NoRetry ==
  LET made == Calls(Stages)
  IN /\ \A i, j \in made :
          (i < j) => (trace[i].ev # trace[j].ev /\ trace[i].ok)
     /\ Faulted("download") =>
          \A i \in made : trace[i].ev = "download"
     /\ Faulted("convert_sync") =>
          \A i \in made : trace[i].ev \in {"download", "convert_sync"}

C12_Witness ==
  /\ Terminated
  /\ Faulted("recognize_google")
  /\ Completed("download")

\* ------------------------------------------------------------------ C13
\* the place of each call in the pipeline order
PipelineRank ==
  ("reply_text" :> 1) @@ ("send_chat_action" :> 2) @@ ("get_file" :> 3)
    @@ ("download" :> 4) @@ ("edit_converting" :> 5) @@ ("convert_sync" :> 6)
    @@ ("edit_recognizing" :> 7) @@ ("transcribe_voice" :> 8)
    @@ ("recognize_google" :> 9) @@ ("os.remove" :> 10)
    @@ ("edit_failure" :> 11) @@ ("edit_result" :> 11)
Rank(name) == PipelineRank[name]

\* the events the claim orders, before the terminal report
Ordered ==
  <<"reply_text", "download", "edit_converting", "convert_sync",
    "edit_recognizing", "transcribe_voice">>

\* C13: the calls of one request happen in pipeline order, each at most
\* once: acknowledgement, download, 'converting' edit, transcoding,
\* 'recognizing' edit, recognition, terminal report.  The k-th call of the
\* pipeline, up to the provider call, is the k-th call of the request, so
\* no call is made before all the calls before it were made; a call that
\* raised is followed by nothing but the failure edit, os.remove and the
\* result edit; the result edit follows all six ordered events, returned.
\* The failure edit and the result edit have the same rank, so the strict
\* order leaves room for one terminal report at most.
C13_PipelineOrder ==
  /\ \A i \in 1..(Len(trace) - 1) :
       /\ Rank(trace[i].ev) < Rank(trace[i + 1].ev)
       /\ ~trace[i].ok =>
            trace[i + 1].ev \in {"edit_failure", "os.remove", "edit_result"}
  /\ \A j \in DOMAIN trace :
       Rank(trace[j].ev) <= 9 => j = Rank(trace[j].ev)
  /\ (trace # <<>> /\ trace[Len(trace)].ev = "edit_result") =>
       \A m \in DOMAIN Ordered : Completed(Ordered[m])

C13_Witness ==
  /\ pc = "returned"
  /\ Len(trace) = 11
  /\ Last.ev = "edit_result"
  /\ Completed("recognize_google")

\* ------------------------------------------------------------------ C14
\* the states from the 'recognizing' edit on, and the terminal states
AfterTranscoding ==
  pc \in {"edit_recognizing", "recognize_sync", "transcribe_return",
          "edit_result", "returned", "raised"}

\* C14 as stated: the source artifact is gone before the 'recognizing' edit
\* and in every terminal state, and on failure it is gone when the failure
\* edit is called.
C14_ReleasedBeforeReport ==
  /\ [](AfterTranscoding => original_media_path \notin files)
  /\ [][(pc = "edit_failure" /\ pc' # pc) =>
          original_media_path \notin files]_vars

\* C14, amended: the source artifact is gone before the 'recognizing' edit
\* and in every terminal state; on failure it is removed after the failure
\* edit returned or raised and before handle_media ends, so it is gone in
\* the state that follows the failure edit.
C14_ReleasedOnEveryPath ==
  /\ [](AfterTranscoding => original_media_path \notin files)
  /\ [][(pc = "edit_failure" /\ pc' # pc) =>
          /\ original_media_path \notin files'
          /\ files' = files \ {original_media_path}
          /\ Terminated']_vars

\* a request whose download returned and whose failure edit raised has ended
C14_Witness ==
  /\ pc = "raised"
  /\ propagated = "edit_failure"
  /\ Completed("download")

\* ------------------------------------------------------------------ C15
\* C15: once transcribe_voice has handed recognize_sync to the worker and it
\* returned or raised, the next step of the call is os.remove of the
\* canonical artifact, whatever the provider did; transcribe_voice then
\* returns the text of that behaviour and the artifact is gone, whether
\* os.remove returned or raised.  Every call that got past the existence
\* test has attempted the removal before the result edit.
C15_RemovedOnEveryBranch ==
  /\ [][(pc = "transcribe_return" /\ pc' # pc) =>
          /\ pc' = "edit_result"
          /\ propagated' = propagated
          /\ trace' = Append(trace,
               Ev("os.remove", temp_file_path \in files, <<>>, "None"))
          /\ temp_file_path \notin files'
          /\ transcribed_text' = C5_Expected]_vars
  /\ []((recognized # NoResult /\ pc \in {"edit_result", "returned", "raised"})
          => /\ Cardinality(Calls({"os.remove"})) = 1
             /\ temp_file_path \notin files)

\* the removal raised after a transcript was obtained, and the transcript
\* was still sent
C15_Witness ==
  /\ pc = "returned"
  /\ Faulted("os.remove")
  /\ recognized.kind = "transcript"
  /\ Last.ev = "edit_result"
  /\ Last.ok

\* ------------------------------------------------------------------ C16
\* C16: when the canonical artifact is missing at the call of
\* transcribe_voice, the call returns the 'file not found' text at once:
\* storage is unchanged, recognize_sync is not started, the provider is not
\* called and no removal is attempted; handle_media then makes exactly one
\* terminal edit, with that text.
C16_MissingArtifact ==
  /\ [][(pc = "edit_recognizing" /\ temp_file_path \notin files
           /\ pc' \notin {"edit_recognizing", "raised"}) =>
          /\ pc' = "edit_result"
          /\ transcribed_text' =
               <<"[Oshibka: Vnutrennyaya oshibka, fayl ne nayden]">>
          /\ files' = files
          /\ recognized' = recognized]_vars
  /\ [](transcribed_text =
          <<"[Oshibka: Vnutrennyaya oshibka, fayl ne nayden]">> =>
          /\ recognized = NoResult
          /\ Calls({"recognize_google", "os.remove", "edit_failure"}) = {}
          /\ Terminated =>
               /\ Cardinality(TerminalReports) = 1
               /\ Last.ev = "edit_result"
               /\ Last.text = <<"\n", "\n">> \o transcribed_text)

C16_Witness ==
  /\ pc = "returned"
  /\ transcribed_text = FileNotFoundText
  /\ Completed("edit_result")

\* ------------------------------------------------------------------ C17
\* C17: a release of an absent file changes nothing and raises nothing.
\* The failure edit followed by the release of an absent source artifact
\* leaves storage unchanged, adds the failure edit alone to the calls and
\* raises only when the edit itself raised; os.remove of an absent canonical
\* artifact in transcribe_voice leaves storage unchanged, sends nothing,
\* and transcribe_voice returns; a second release of the source equals one.
C17_ReleaseIdempotent ==
  /\ [][(pc = "edit_failure" /\ pc' # pc
           /\ original_media_path \notin files) =>
          /\ files' = files
          /\ Len(trace') = Len(trace) + 1
          /\ (pc' = "raised") = ~trace'[Len(trace')].ok]_vars
  /\ [][(pc = "transcribe_return" /\ pc' # pc
           /\ temp_file_path \notin files) =>
          /\ files' = files
          /\ pc' = "edit_result"
          /\ propagated' = propagated
          /\ {i \in DOMAIN trace' : trace'[i].ev \in StatusCalls} =
               {i \in DOMAIN trace : trace[i].ev \in StatusCalls}]_vars
  /\ [](ReleaseSource(ReleaseSource(files)) = ReleaseSource(files))
  /\ [](original_media_path \notin files => ReleaseSource(files) = files)

\* os.remove of line 74 raised on an absent file and transcribe_voice returned
C17_Witness ==
  /\ pc = "edit_result"
  /\ Faulted("os.remove")

\* ------------------------------------------------------------------ C18
\* a step of a started call keeps the call and its update; it ends the call
\* only by a status call
C18_NoCancellation ==
  pc \in Running =>
    /\ pc' \in Running \cup {"returned", "raised"}
    /\ update' = update
    /\ Terminated' =>
         /\ Len(trace') = Len(trace) + 1
         /\ trace'[Len(trace')].ev \in StatusCalls

\* C18: a started call of handle_media ends: under the fairness of FairSpec
\* it reaches returned or raised.  Until then nothing takes the call away:
\* from a non-terminal state the call goes to a non-terminal or a terminal
\* state with the same update, and it enters a terminal state only by a
\* status call that returned or raised.
C18_EventuallyTerminal ==
  /\ (pc \in Running) ~> Terminated
  /\ [][C18_NoCancellation]_vars

\* a request on which the provider found no speech has ended
C18_Witness ==
  /\ pc = "returned"
  /\ recognized.kind = "UnknownValueError"
  /\ Completed("edit_result")

\* ------------------------------------------------------------------ C19
\* C19: reply_text is the first call of a request.  The scratch directory is
\* created only in the step in which reply_text returned, and a key is
\* chosen and a download made only after that.  When reply_text raised the
\* call ends there: storage, the directory and the key log are as before,
\* no path was built, and no download, convert_sync, transcribe_voice or
\* provider call is made.
C19_AckFirst ==
  /\ [](propagated = "reply_text" =>
          /\ pc = "raised"
          /\ Len(trace) = 1 /\ trace[1].ev = "reply_text" /\ ~trace[1].ok
          /\ original_media_path = <<>> /\ temp_file_path = <<>>
          /\ Calls(Stages) = {})
  /\ []((original_media_path # <<>> \/ Calls(Stages \cup {"get_file"}) # {}) =>
          /\ trace[1].ev = "reply_text" /\ trace[1].ok
          /\ dir_exists)
  /\ [][(pc = "reply_text" /\ pc' = "raised") =>
          /\ files' = files
          /\ dir_exists' = dir_exists
          /\ allocated' = allocated]_vars
  /\ [][dir_exists' # dir_exists =>
          /\ pc = "reply_text"
          /\ trace' = <<[ev |-> "reply_text", ok |-> TRUE, text |-> AckText,
                         parse_mode |-> "None"]>>]_vars

\* the first reply of the first request raised: no directory was created
C19_Witness ==
  /\ pc = "raised"
  /\ propagated = "reply_text"
  /\ ~dir_exists

\* ------------------------------------------------------------------ C20
\* C20: the text of the result edit is never empty.  When transcribe_voice
\* returned None or the empty string the text is the fixed fallback text,
\* sent without parse mode; otherwise it is the returned, non-empty text
\* after two newlines, sent as Markdown.  The result edit is the only
\* terminal report of its request.
C20_ResultTextNeverEmpty ==
  /\ \A i \in Calls({"edit_result"}) :
       /\ trace[i].text # <<>>
       /\ \A j \in DOMAIN trace :
            trace[j].ev \in {"edit_failure", "edit_result"} => j = i
       /\ IF transcribed_text = <<>> \/ transcribed_text = <<"None">>
          THEN /\ trace[i].text =
                    <<"Ne udalos poluchit rezultat raspoznavaniya.">>
               /\ trace[i].parse_mode = "None"
          ELSE /\ trace[i].text = <<"\n", "\n">> \o transcribed_text
               /\ trace[i].parse_mode = "Markdown"
  /\ FinalText(<<"None">>) = <<"Ne udalos poluchit rezultat raspoznavaniya.">>
  /\ FinalText(<<>>) = <<"Ne udalos poluchit rezultat raspoznavaniya.">>

\* the provider returned the empty transcript and the fallback text was sent
C20_Witness ==
  /\ pc = "returned"
  /\ recognized.kind = "transcript"
  /\ transcribed_text = <<>>
  /\ Completed("edit_result")
  /\ Last.text = FallbackText
====
